---------------------------- MODULE Spec2Model ----------------------------
(***************************************************************************)
(* Model of backend/utils/notion_client.go: the Notion import client.      *)
(*                                                                         *)
(* The remote workspace (the Gateway) is a forest of blocks: every page is *)
(* a block of type "child_page" whose children are the page's top-level    *)
(* blocks.  The workspace is built by the environment actions AddBlock and *)
(* AddFault; the client operations GetPagesContent, getBlock and GetList   *)
(* are then run against it.  The client is single-threaded and synchronous *)
(* so every client operation is one atomic action; the gateway calls it    *)
(* makes are recorded, in order, in ret.calls.                             *)
(*                                                                         *)
(* Markdown text is a sequence of fragments.  A fragment is a record       *)
(* [tag, id, n, s]: tag names the markup rule that produced it, id is the  *)
(* block whose rich text / resource it carries, n is the number printed in *)
(* it (ordinal, pipe groups, cells) and s a literal string it carries.     *)
(* An error is the sequence of the message parts wrapped around the        *)
(* gateway's own message, outermost first; the empty sequence is nil.      *)
(***************************************************************************)
EXTENDS Integers, Sequences, FiniteSets, TLC

\* ------------------------------------------------------------- bounds
NPages == 2       \* pages in the workspace (ids 1..NPages)
MaxBlocks == 4    \* blocks of a workspace all of whose calls succeed
MaxFaultyBlocks == 3  \* blocks of a workspace some of whose calls fail
MaxPageBlocks == 2    \* blocks of the workspace the page assembler runs on
MaxFaults == 1    \* gateway calls made to fail
TableWidth == 3   \* cells of a table row
MaxRefs == 2      \* PageRefs handed to GetPagesContent
MaxResults == 3   \* objects in a search response
PageSize == 3     \* children one page of the children listing holds

PageIds == 1..NPages
Ids == 1..(NPages + MaxBlocks)
NoBlock == 0      \* the empty BlockID ""
MissingId == NPages + MaxBlocks + 1   \* an id the workspace holds no block for

\* ------------------------------------------------------------ gateway
VARIABLES
    blocks,    \* id -> the block object the gateway holds ("none": no such block)
    children,  \* id -> the block's children, in document order
    fault,     \* the gateway calls that fail: <<call, id>>
    search,    \* the objects the search endpoint returns, in result order
    op,        \* the client operation last run ("idle": none yet)
    arg,       \* its arguments
    ret        \* what it returned, and the gateway calls it made

vars == <<blocks, children, fault, search, op, arg, ret>>

NoBlockObj == [type |-> "none", parent |-> NoBlock, has_row_header |-> FALSE, cells |-> 0,
               checked |-> FALSE]

Exists(id) == id \in Ids /\ blocks[id].type # "none"

\* has_children of the block object
GetHasChildren(id) == children[id] # <<>>

\* block.GetParent().BlockID: set when the parent is a block, empty when the
\* parent is a page (the parent object then carries a page id instead).
ParentBlockID(id) ==
    IF blocks[id].parent # NoBlock /\ blocks[blocks[id].parent].type # "child_page"
    THEN blocks[id].parent
    ELSE NoBlock

\* ----------------------------------------------------- values returned
Nil == <<>>
Msg(o, id) == [op |-> o, id |-> id]
GatewayError(call, id) == <<Msg(call, id)>>
Call(c, id) == [call |-> c, id |-> id]
Frag(tag, id, n, s) == [tag |-> tag, id |-> id, n |-> n, s |-> s]

Min(a, b) == IF a < b THEN a ELSE b

\* client.Block.Get(id)
BlockGet(id) ==
    IF ~Exists(id) \/ <<"Block.Get", id>> \in fault
    THEN [err |-> GatewayError("Block.Get", id)]
    ELSE [err |-> Nil]

\* client.Block.GetChildren(id, &Pagination{}): no cursor and no page size are
\* sent, so the gateway answers with the first page of the listing.
BlockGetChildren(id) ==
    IF ~Exists(id) \/ <<"Block.GetChildren", id>> \in fault
    THEN [err |-> GatewayError("Block.GetChildren", id), Results |-> <<>>, HasMore |-> FALSE]
    ELSE [err |-> Nil,
          Results |-> SubSeq(children[id], 1, Min(PageSize, Len(children[id]))),
          HasMore |-> Len(children[id]) > PageSize]

\* The URL the block-resource endpoint holds for an image block.
ImageURL(id) == "https://x/y.png"

\* Seeded fault for C10: a body that does not decode is taken for an image
\* with no URL instead of being reported.
getImageURLIgnoresDecode(id) ==
    IF <<"http", id>> \in fault THEN [url |-> "", err |-> "transport error"]
    ELSE IF <<"decode", id>> \in fault THEN [url |-> "", err |-> ""]
    ELSE [url |-> ImageURL(id), err |-> ""]

\* getImageURL: the request to /v1/blocks/<id> and the decoding of its body.
getImageURL(id) ==
    IF <<"http", id>> \in fault THEN [url |-> "", err |-> "transport error"]
    ELSE IF <<"decode", id>> \in fault THEN [url |-> "", err |-> "decode error"]
    ELSE [url |-> ImageURL(id), err |-> ""]

RECURSIVE CountBefore(_, _, _)
\* The loop of getNumberedListNumber over children.Results, i the counter.
CountBefore(results, id, i) ==
    IF results = <<>> THEN i
    ELSE IF Head(results) = id THEN i + 1
    ELSE CountBefore(Tail(results), id,
                     IF blocks[Head(results)].type = "numbered_list_item" THEN i + 1 ELSE i)

getNumberedListNumber(id) ==
    LET parentId == ParentBlockID(id)
        ch == BlockGetChildren(parentId)
    IN  [num |-> IF ch.err # Nil THEN 1 ELSE CountBefore(ch.Results, id, 0),
         calls |-> <<Call("Block.GetChildren", parentId)>>]

TextKinds == {"heading_1", "paragraph", "heading_2", "heading_3", "bulleted_list_item",
              "toggle", "quote", "code", "callout"}

RECURSIVE BlockToMarkdown(_)
RECURSIVE TableRows(_, _, _)
\* The loop of the table rule over ch.Results; i is the index of the row.
TableRows(results, i, hasRow) ==
    IF results = <<>> THEN [text |-> <<>>, calls |-> <<>>]
    ELSE LET temp == Head(results)
             row == BlockToMarkdown(temp)
             sep == IF i = 0 /\ hasRow
                    THEN <<Frag("separator", temp, blocks[temp].cells + 1, "| ---")>>
                    ELSE <<>>
             rest == TableRows(Tail(results), i + 1, hasRow)
         IN  [text |-> row.text \o sep \o rest.text, calls |-> row.calls \o rest.calls]

BlockToMarkdown(id) ==
    LET t == blocks[id].type IN
    IF t \in TextKinds THEN [text |-> <<Frag(t, id, 0, "")>>, calls |-> <<>>]
    ELSE IF t = "numbered_list_item" THEN
        LET r == getNumberedListNumber(id)
        IN  [text |-> <<Frag(t, id, r.num, "")>>, calls |-> r.calls]
    ELSE IF t = "table_row" THEN
        [text |-> <<Frag(t, id, blocks[id].cells, "")>>, calls |-> <<>>]
    ELSE IF t = "table" THEN
        \* (the listing's error is dropped: ch is read whether or not it failed)
        LET ch == BlockGetChildren(id)
            rows == TableRows(ch.Results, 0, blocks[id].has_row_header)
        IN  [text |-> rows.text, calls |-> <<Call("Block.GetChildren", id)>> \o rows.calls]
    ELSE IF t = "divider" THEN [text |-> <<Frag(t, id, 0, "---")>>, calls |-> <<>>]
    ELSE IF t = "to_do" THEN
        [text |-> <<Frag(t, id, 0, IF blocks[id].checked THEN "- [x] " ELSE "- [ ] ")>>,
         calls |-> <<>>]
    ELSE IF t = "video" THEN [text |-> <<Frag(t, id, 0, "<iframe>")>>, calls |-> <<>>]
    ELSE IF t = "embed" THEN [text |-> <<Frag(t, id, 0, "{}")>>, calls |-> <<>>]
    ELSE IF t = "image" THEN
        LET r == getImageURL(id)
        IN  [text |-> IF r.err # "" THEN <<Frag("error", id, 0, r.err)>>
                      ELSE <<Frag("image", id, 0, r.url)>>,
             calls |-> <<Call("http", id)>>]
    ELSE [text |-> <<>>, calls |-> <<>>]

\* Seeded fault for C9: the unsupported kind is walked like any other.
IsUnsupportedNever(id) == FALSE

\* b.GetType() == BlockTypeUnsupported
IsUnsupported(id) == blocks[id].type = "unsupported"

\* Seeded fault for C4: the gateway's error is returned as it is, without the
\* block id wrapped around it.
BlockGetFailedBare(id, e) ==
    [buf |-> <<>>, err |-> e, calls |-> <<Call("Block.Get", id)>>]

\* The return of getBlock when Block.Get failed with e.
BlockGetFailed(id, e) ==
    [buf |-> <<>>, err |-> <<Msg("get block", id)>> \o e,
     calls |-> <<Call("Block.Get", id)>>]

RECURSIVE getBlock(_)
RECURSIVE WalkChildren(_)
RECURSIVE WalkChildrenAbort(_)
\* Seeded fault for C3: the loop stops at the first child whose walk fails.
WalkChildrenAbort(results) ==
    IF results = <<>> THEN [buf |-> <<>>, calls |-> <<>>]
    ELSE LET child == getBlock(Head(results)) IN
         IF child.err # Nil THEN [buf |-> child.buf, calls |-> child.calls]
         ELSE LET rest == WalkChildrenAbort(Tail(results))
              IN  [buf |-> child.buf \o rest.buf, calls |-> child.calls \o rest.calls]

\* The loop of getBlock over childerns.Results.
WalkChildren(results) ==
    IF results = <<>> THEN [buf |-> <<>>, calls |-> <<>>]
    ELSE LET child == getBlock(Head(results))
             rest == WalkChildren(Tail(results))
         IN  [buf |-> child.buf \o rest.buf, calls |-> child.calls \o rest.calls]

getBlock(id) ==
    LET b == BlockGet(id) IN
    IF b.err # Nil
    THEN BlockGetFailed(id, b.err)
    ELSE IF IsUnsupported(id)
    THEN [buf |-> <<>>, err |-> Nil, calls |-> <<Call("Block.Get", id)>>]
    ELSE IF ~GetHasChildren(id)
    THEN LET md == BlockToMarkdown(id)
         IN  [buf |-> md.text, err |-> Nil, calls |-> <<Call("Block.Get", id)>> \o md.calls]
    ELSE LET childerns == BlockGetChildren(id) IN
         IF childerns.err # Nil
         THEN [buf |-> <<>>, err |-> <<Msg("get block's children", id)>> \o childerns.err,
               calls |-> <<Call("Block.Get", id), Call("Block.GetChildren", id)>>]
         ELSE LET w == WalkChildren(childerns.Results)
              IN  [buf |-> w.buf, err |-> Nil,
                   calls |-> <<Call("Block.Get", id), Call("Block.GetChildren", id)>>
                             \o w.calls]

getPageContent(Page) ==
    LET r == getBlock(Page.Id) IN
    IF r.err # Nil
    THEN [page |-> <<>>, err |-> <<Msg("get Page", Page.Id)>> \o r.err, calls |-> r.calls]
    ELSE [page |-> <<[ID |-> Page.Id, Title |-> Page.Title, Content |-> r.buf]>>,
          err |-> Nil, calls |-> r.calls]

RECURSIVE PagesLoop(_, _, _)
RECURSIVE PagesLoopPartial(_, _, _)
\* Seeded fault for C5: on a page error the pages rendered so far are returned
\* with the error.
PagesLoopPartial(Pages, result, calls) ==
    IF Pages = <<>> THEN [pages |-> result, err |-> Nil, calls |-> calls]
    ELSE LET page == Head(Pages)
             res == getPageContent(page)
         IN  IF res.err # Nil
             THEN [pages |-> result, err |-> <<Msg("get Pages", page.Id)>> \o res.err,
                   calls |-> calls \o res.calls]
             ELSE PagesLoopPartial(Tail(Pages), result \o res.page, calls \o res.calls)

\* The loop of GetPagesContent over Pages; result and calls are what it has so far.
PagesLoop(Pages, result, calls) ==
    IF Pages = <<>> THEN [pages |-> result, err |-> Nil, calls |-> calls]
    ELSE LET page == Head(Pages)
             res == getPageContent(page)
         IN  IF res.err # Nil
             THEN [pages |-> <<>>, err |-> <<Msg("get Pages", page.Id)>> \o res.err,
                   calls |-> calls \o res.calls]
             ELSE PagesLoop(Tail(Pages), result \o res.page, calls \o res.calls)

GetPagesContentOf(Pages) == PagesLoop(Pages, <<>>, <<>>)

\* -------------------------------------------------------- Search/List
\* A property of a page: is_title tells a *TitleProperty from any other (or
\* no) property, Title holds the plain text of its rich-text runs.
NoProp == [is_title |-> FALSE, Title |-> <<>>]
TitleProp(runs) == [is_title |-> TRUE, Title |-> runs]

SearchObjects ==
    [object : {"page"}, id : {0},
     title : {NoProp, TitleProp(<<>>), TitleProp(<<"Roadmap">>)},
     Name : {NoProp, TitleProp(<<"Road", "Trips">>)}, db_title : {""}]
    \cup [object : {"block"}, id : {0}, title : {NoProp}, Name : {NoProp}, db_title : {""}]
    \cup [object : {"database"}, id : {0}, title : {NoProp}, Name : {NoProp},
          db_title : {"", "Road Trips"}]

\* Seeded fault for C8: a database result is given its own title.
ResultTitleAnyKind(page) ==
    IF page.object = "database" THEN page.db_title
    ELSE IF page.object = "page" THEN
        IF page.title.is_title
        THEN IF Len(page.title.Title) > 0 THEN page.title.Title[1] ELSE ""
        ELSE IF page.Name.is_title
        THEN IF Len(page.Name.Title) > 0 THEN page.Name.Title[1] ELSE ""
        ELSE ""
    ELSE ""

\* The switch of GetList on the object kind: the title it resolves.
ResultTitle(page) ==
    IF page.object = "page" THEN
        IF page.title.is_title
        THEN IF Len(page.title.Title) > 0 THEN page.title.Title[1] ELSE ""
        ELSE IF page.Name.is_title
        THEN IF Len(page.Name.Title) > 0 THEN page.Name.Title[1] ELSE ""
        ELSE ""
    ELSE ""

RECURSIVE GetListLoop(_, _)
\* The loop of GetList over res.Results.
GetListLoop(Results, result) ==
    IF Results = <<>> THEN result
    ELSE LET page == Head(Results)
             title == ResultTitle(page)
         IN  GetListLoop(Tail(Results),
                         IF title # ""
                         THEN Append(result, [Id |-> page.id, Title |-> title])
                         ELSE result)

NoArg == [id |-> NoBlock, Pages |-> <<>>, Results |-> <<>>]
NoRet == [buf |-> <<>>, pages |-> <<>>, list |-> <<>>, err |-> Nil, calls |-> <<>>]

\* GetList on a search that failed or that answered with Results.
GetListOf(Results, failed) ==
    IF failed
    THEN [NoRet EXCEPT !.err = GatewayError("Search.Do", NoBlock),
                       !.calls = <<Call("Search.Do", NoBlock)>>]
    ELSE [NoRet EXCEPT !.list = GetListLoop(Results, <<>>),
                       !.calls = <<Call("Search.Do", NoBlock)>>]

\* ------------------------------------------------------------ actions

Init ==
    /\ blocks = [id \in Ids |->
                    IF id \in PageIds
                    THEN [NoBlockObj EXCEPT !.type = "child_page"]
                    ELSE NoBlockObj]
    /\ children = [id \in Ids |-> <<>>]
    /\ fault = {}
    /\ search = <<>>
    /\ op = "idle"
    /\ arg = NoArg
    /\ ret = NoRet

NextId == CHOOSE id \in Ids \cup {MissingId} :
              /\ id \notin Ids \/ ~Exists(id)
              /\ \A j \in Ids : j < id => Exists(j)

Containers == {"child_page", "paragraph", "numbered_list_item", "unsupported"}
LeafKinds == {"paragraph", "numbered_list_item", "image", "unsupported"}

\* Ids are handed out in document (level) order: a new block goes below the
\* parent of the newest block or below a later block.
LastParent == IF NextId - 1 \in PageIds THEN 1 ELSE blocks[NextId - 1].parent

\* The workspace is edited before any call fails and before the client runs.
Append1(p, obj, max) ==
    /\ op = "idle"
    /\ fault = {}
    /\ search = <<>>
    /\ NextId \in Ids
    /\ NextId <= NPages + max
    /\ Exists(p)
    /\ p >= LastParent
    /\ blocks' = [blocks EXCEPT ![NextId] = obj]
    /\ children' = [children EXCEPT ![p] = Append(@, NextId)]
    /\ UNCHANGED <<fault, search, op, arg, ret>>

\* The environment appends a block to the children of p.
AddBlock ==
    \E p \in Ids, k \in LeafKinds :
        /\ blocks[p].type \in Containers
        /\ Append1(p, [NoBlockObj EXCEPT !.type = k, !.parent = p], MaxBlocks)

\* The same, in the tree of the first page of a workspace that stays small
\* and holds no list.
AddBlockBelowFirstPage ==
    \E p \in Ids, k \in LeafKinds \ {"numbered_list_item"} :
        /\ p \in PageIds => p = 1
        /\ blocks[p].type \in Containers
        /\ Append1(p, [NoBlockObj EXCEPT !.type = k, !.parent = p], MaxFaultyBlocks)

\* The environment appends a paragraph or an image to the top level of a page.
AddTopBlock ==
    \E p \in PageIds, k \in {"paragraph", "image"} :
        Append1(p, [NoBlockObj EXCEPT !.type = k, !.parent = p], MaxPageBlocks)

AddTable ==
    \E p \in Ids, h \in BOOLEAN :
        /\ blocks[p].type \in Containers
        /\ Append1(p, [NoBlockObj EXCEPT !.type = "table", !.parent = p, !.has_row_header = h],
                    MaxBlocks)

AddRow ==
    \E p \in Ids :
        /\ blocks[p].type = "table"
        /\ Append1(p, [NoBlockObj EXCEPT !.type = "table_row", !.parent = p,
                                         !.cells = TableWidth], MaxBlocks)

\* The environment makes one gateway call on one block fail.
AddFault ==
    \E c \in {"Block.Get", "Block.GetChildren", "http", "decode"}, id \in Ids :
        /\ op = "idle"
        /\ search = <<>>
        /\ Exists(id)
        /\ Cardinality(fault) < MaxFaults
        /\ c = "Block.GetChildren" => children[id] # <<>>
        /\ c \in {"http", "decode"} => blocks[id].type = "image"
        /\ fault' = fault \cup {<<c, id>>}
        /\ UNCHANGED <<blocks, children, search, op, arg, ret>>

\* A table of the workspace always holds at least one row.
WellFormed == \A id \in Ids : blocks[id].type = "table" => children[id] # <<>>

\* The search index gains one more object, which the next search returns.
AddResult ==
    \E o \in SearchObjects :
        /\ op = "idle"
        /\ Len(search) < MaxResults
        /\ \A id \in Ids : children[id] = <<>>
        /\ fault = {}
        /\ search' = Append(search, [o EXCEPT !.id = Len(search) + 1])
        /\ UNCHANGED <<blocks, children, fault, op, arg, ret>>

GetList ==
    \E failed \in BOOLEAN :
        /\ op = "idle"
        /\ op' = "GetList"
        /\ arg' = [NoArg EXCEPT !.Results = search]
        /\ ret' = GetListOf(search, failed)
        /\ UNCHANGED <<blocks, children, fault, search>>

\* The PageRefs a caller holds: one per page, under the title the search gave
\* it, and one of a page that is gone.
TitleOf(id) == IF id = MissingId THEN "Gone" ELSE IF id = 1 THEN "Roadmap" ELSE "Notes"
PageInfos == {[Id |-> id, Title |-> TitleOf(id)] : id \in PageIds \cup {MissingId}}
RECURSIVE SeqsUpTo(_, _)
SeqsUpTo(S, n) ==
    IF n = 0 THEN {<<>>}
    ELSE LET shorter == SeqsUpTo(S, n - 1)
         IN  shorter \cup {Append(s, x) : s \in shorter, x \in S}

GetPagesContent ==
    \E Pages \in SeqsUpTo(PageInfos, MaxRefs) :
        /\ op = "idle"
        /\ WellFormed
        /\ op' = "GetPagesContent"
        /\ arg' = [NoArg EXCEPT !.Pages = Pages]
        /\ LET r == GetPagesContentOf(Pages)
           IN  ret' = [NoRet EXCEPT !.pages = r.pages, !.err = r.err, !.calls = r.calls]
        /\ UNCHANGED <<blocks, children, fault, search>>

\* One invocation of the walker, on a page id, on the id of a listed child, or
\* on an id the workspace holds no block for (the first free one stands for all).
GetBlock ==
    \E id \in Ids :
        /\ op = "idle"
        /\ Exists(id) \/ id = NextId
        /\ WellFormed
        /\ op' = "getBlock"
        /\ arg' = [NoArg EXCEPT !.id = id]
        /\ LET r == getBlock(id)
           IN  ret' = [NoRet EXCEPT !.buf = r.buf, !.err = r.err, !.calls = r.calls]
        /\ UNCHANGED <<blocks, children, fault, search>>

\* The walker on the blocks of a workspace all of whose calls succeed.
NextWalk == AddBlock \/ GetBlock
SpecWalk == Init /\ [][NextWalk]_vars

\* The walker on the blocks of a workspace some of whose calls fail.
NextFaulty == AddBlockBelowFirstPage \/ AddFault \/ GetBlock
SpecFaulty == Init /\ [][NextFaulty]_vars

\* The walker on the blocks of a workspace that holds tables.
NextTable == AddBlock \/ AddTable \/ AddRow \/ GetBlock
SpecTable == Init /\ [][NextTable]_vars

\* The page assembler on the pages of a workspace.
NextPages == AddTopBlock \/ AddFault \/ GetPagesContent
SpecPages == Init /\ [][NextPages]_vars

\* Search/List on the responses of the search endpoint.
NextList == AddResult \/ GetList
SpecList == Init /\ [][NextList]_vars

Next == NextWalk \/ NextFaulty \/ NextTable \/ NextPages \/ NextList
Spec == Init /\ [][Next]_vars

\* ----------------------------------------------------------------- claims
RECURSIVE Flatten(_)
Flatten(ss) == IF ss = <<>> THEN <<>> ELSE Head(ss) \o Flatten(Tail(ss))

Range(f) == {f[i] : i \in DOMAIN f}

\* What the walk of child c adds to the output of its parent.
ChildOut(c) == IF getBlock(c).err # Nil THEN <<>> ELSE getBlock(c).buf

\* The walker ran on block B, fetched it, and listed its children.
WalkedParent(B) ==
    /\ op = "getBlock" /\ arg.id = B
    /\ BlockGet(B).err = Nil
    /\ blocks[B].type # "unsupported"
    /\ children[B] # <<>>
    /\ BlockGetChildren(B).err = Nil

\* The children of B the listing call of the walker returned.
Listed(B) == BlockGetChildren(B).Results

\* C1: the walker's output on a block with children (a table aside, whose
\* fragment is its rows: C7) is the block's own fragment followed by the
\* outputs of the walker on its children, in document order.
C1_SelfThenChildren ==
    \A B \in Ids :
        WalkedParent(B) /\ blocks[B].type # "table" =>
            ret.buf = BlockToMarkdown(B).text
                      \o Flatten([i \in 1..Len(children[B]) |-> ChildOut(children[B][i])])

\* C2: every child of the walked block, on whatever page of the children
\* listing it lies, contributes its output, in document order.
C2_EveryPageOfChildren ==
    \A B \in Ids :
        WalkedParent(B) =>
            ret.buf = Flatten([i \in 1..Len(children[B]) |-> ChildOut(children[B][i])])

\* C3: when the fetch of a listed child fails, the walker on the parent
\* returns no error, its output is the outputs of the other listed children
\* in listing order, and every listed child is still fetched.
C3_ChildFailureIsolated ==
    \A B \in Ids :
        (/\ WalkedParent(B)
         /\ \E i \in 1..Len(Listed(B)) : BlockGet(Listed(B)[i]).err # Nil) =>
            /\ ret.err = Nil
            /\ ret.buf = Flatten([i \in 1..Len(Listed(B)) |->
                                    IF BlockGet(Listed(B)[i]).err # Nil THEN <<>>
                                    ELSE getBlock(Listed(B)[i]).buf])
            /\ \A i \in 1..Len(Listed(B)) : Call("Block.Get", Listed(B)[i]) \in Range(ret.calls)

\* A parent was walked whose listing holds a child that failed and, after it,
\* a sibling with output; the parent's output is not empty.
C3_Witness ==
    \E B \in Ids :
        /\ WalkedParent(B)
        /\ \E i, j \in 1..Len(Listed(B)) :
              /\ i < j
              /\ BlockGet(Listed(B)[i]).err # Nil
              /\ getBlock(Listed(B)[j]).err = Nil
              /\ getBlock(Listed(B)[j]).buf # <<>>
        /\ ret.buf # <<>>
        /\ ret.err = Nil

\* C4: when the fetch of the block the walker was called on fails, the walker
\* returns an error that names the block id, an empty output, and has made
\* no call but that fetch (no children listing).
C4_RootFetchFailure ==
    \A B \in Ids :
        (op = "getBlock" /\ arg.id = B /\ BlockGet(B).err # Nil) =>
            /\ ret.buf = <<>>
            /\ ret.err # Nil
            /\ Head(ret.err) = Msg("get block", B)
            /\ ret.calls = <<Call("Block.Get", B)>>

\* The walker ran on a block that has children and whose fetch failed.
C4_Witness ==
    \E B \in Ids :
        /\ op = "getBlock" /\ arg.id = B
        /\ children[B] # <<>>
        /\ <<"Block.Get", B>> \in fault
        /\ ret.err # Nil

\* The PageRefs of the last GetPagesContent whose traversal fails.
FailingRefs == {i \in 1..Len(arg.Pages) : getBlock(arg.Pages[i].Id).err # Nil}
FirstFailing == CHOOSE k \in FailingRefs : \A i \in FailingRefs : k <= i

\* C5: GetPagesContent stops at the first PageRef whose traversal fails and
\* returns an error naming its id and no Page at all, having fetched nothing
\* of the later pages; when none fails it returns one Page per PageRef, in
\* input order, with the PageRef's id and title and the walker's output.
C5_BatchFailsOnFirstError ==
    op = "GetPagesContent" =>
        IF FailingRefs # {}
        THEN /\ ret.pages = <<>>
             /\ ret.err # Nil
             /\ Head(ret.err) = Msg("get Pages", arg.Pages[FirstFailing].Id)
             /\ ret.calls = Flatten([i \in 1..FirstFailing |-> getBlock(arg.Pages[i].Id).calls])
        ELSE /\ ret.err = Nil
             /\ Len(ret.pages) = Len(arg.Pages)
             /\ \A i \in 1..Len(arg.Pages) :
                    ret.pages[i] = [ID |-> arg.Pages[i].Id, Title |-> arg.Pages[i].Title,
                                    Content |-> getBlock(arg.Pages[i].Id).buf]

\* A batch of two pages ran whose first page rendered to some text and whose
\* second page failed: nothing was returned but the error.
C5_Witness ==
    /\ op = "GetPagesContent"
    /\ Len(arg.Pages) = 2
    /\ getBlock(arg.Pages[1].Id).err = Nil
    /\ getBlock(arg.Pages[1].Id).buf # <<>>
    /\ getBlock(arg.Pages[2].Id).err # Nil
    /\ ret.pages = <<>>
    /\ Head(ret.err) = Msg("get Pages", arg.Pages[2].Id)

\* The numbered-list items that precede B among all the children of its parent.
NumberedBefore(B) ==
    LET sibs == children[blocks[B].parent]
    IN  Cardinality({i \in 1..Len(sibs) :
                        /\ blocks[sibs[i]].type = "numbered_list_item"
                        /\ \E j \in 1..Len(sibs) : i < j /\ sibs[j] = B})

\* C6: the ordinal printed for a numbered-list item is 1 plus the number of
\* numbered-list items that precede it among the children of its parent,
\* whether the parent is a block or the page.
C6_OrdinalCountsNumberedSiblings ==
    \A B \in Ids :
        (/\ op = "getBlock" /\ arg.id = B
         /\ fault = {}
         /\ blocks[B].type = "numbered_list_item"
         /\ children[B] = <<>>) =>
            ret.buf = <<Frag("numbered_list_item", B, 1 + NumberedBefore(B), "")>>

\* The text of a table as the table rule lays it out: the rows in order and,
\* when the table has a header row, the separator line after the first row.
TableText(T) ==
    LET rows == children[T]
    IN  Flatten([i \in 1..Len(rows) |->
                    <<Frag("table_row", rows[i], blocks[rows[i]].cells, "")>>
                    \o (IF i = 1 /\ blocks[T].has_row_header
                        THEN <<Frag("separator", rows[i], blocks[rows[i]].cells + 1, "| ---")>>
                        ELSE <<>>)])

\* C7: the walker's output on a table is its rows in order with, when the
\* header flag is set, one separator line of columns+1 groups right after the
\* first row, and no separator line when the flag is not set.
C7_TableSeparatorAfterHeader ==
    \A T \in Ids :
        (/\ op = "getBlock" /\ arg.id = T
         /\ fault = {}
         /\ blocks[T].type = "table") =>
            ret.buf = TableText(T)

\* The title the claim takes a search result to have: a page's resolved
\* title, a database's own title.
TitleOfAnyKind(o) ==
    IF o.object = "database" THEN o.db_title
    ELSE IF o.object = "page" THEN
        IF o.title.is_title
        THEN (IF o.title.Title = <<>> THEN "" ELSE o.title.Title[1])
        ELSE IF o.Name.is_title
        THEN (IF o.Name.Title = <<>> THEN "" ELSE o.Name.Title[1])
        ELSE ""
    ELSE ""

\* The title of a page result, empty for every other kind of result.
TitleOfPage(o) == IF o.object = "page" THEN TitleOfAnyKind(o) ELSE ""

RefsOf(results, T(_)) ==
    LET titled == SelectSeq(results, LAMBDA o : T(o) # "")
    IN  [i \in 1..Len(titled) |-> [Id |-> titled[i].id, Title |-> T(titled[i])]]

\* C8 as stated: GetList returns, in result order, one PageRef for every
\* search result that has a title, page or database alike.
C8_EveryTitledResult ==
    (op = "GetList" /\ ret.err = Nil) => ret.list = RefsOf(arg.Results, TitleOfAnyKind)

\* C8, amended: GetList returns, in result order, one PageRef for every page
\* result whose resolved title is not empty, and drops every other result,
\* block and database results included whatever their title.
C8_TitledPagesOnly ==
    (op = "GetList" /\ ret.err = Nil) => ret.list = RefsOf(arg.Results, TitleOfPage)

\* The search returned the page "Roadmap", a block and the database "Road
\* Trips", and GetList returned the one PageRef of the page.
C8_Witness ==
    /\ op = "GetList"
    /\ Len(arg.Results) = 3
    /\ arg.Results[1].object = "page" /\ arg.Results[1].title = TitleProp(<<"Roadmap">>)
    /\ arg.Results[2].object = "block"
    /\ arg.Results[3].object = "database" /\ arg.Results[3].db_title = "Road Trips"
    /\ ret.list = <<[Id |-> 1, Title |-> "Roadmap"]>>

\* C9: the walker on an unsupported block returns empty output and no error
\* and makes no call but the fetch of the block, children or not; a parent
\* whose listing holds an unsupported block fetches every listed child and
\* nothing below the unsupported one; and the renderer's text is empty for
\* the kinds it has no rule for.
C9_UnsupportedIsEmpty ==
    /\ \A B \in Ids :
        (op = "getBlock" /\ arg.id = B /\ BlockGet(B).err = Nil
         /\ blocks[B].type = "unsupported") =>
            /\ ret.buf = <<>>
            /\ ret.err = Nil
            /\ ret.calls = <<Call("Block.Get", B)>>
    /\ \A B \in Ids :
        WalkedParent(B) =>
            \A i \in 1..Len(Listed(B)) :
                LET u == Listed(B)[i] IN
                (BlockGet(u).err = Nil /\ blocks[u].type = "unsupported") =>
                    /\ ret.err = Nil
                    /\ \A j \in 1..Len(Listed(B)) : Call("Block.Get", Listed(B)[j]) \in Range(ret.calls)
                    /\ Call("Block.GetChildren", u) \notin Range(ret.calls)
                    /\ \A k \in 1..Len(children[u]) :
                           Call("Block.Get", children[u][k]) \notin Range(ret.calls)
                    /\ ret.buf = Flatten([j \in 1..Len(Listed(B)) |->
                                            IF j = i THEN <<>> ELSE ChildOut(Listed(B)[j])])
    /\ \A id \in Ids :
        blocks[id].type \in {"unsupported", "child_page", "none"} =>
            BlockToMarkdown(id).text = <<>>

\* A parent was walked whose listing holds an unsupported block that has
\* children, followed by a sibling whose text is in the parent's output.
C9_Witness ==
    \E B \in Ids :
        /\ WalkedParent(B)
        /\ \E i, j \in 1..Len(Listed(B)) :
              /\ i < j
              /\ BlockGet(Listed(B)[i]).err = Nil
              /\ blocks[Listed(B)[i]].type = "unsupported"
              /\ children[Listed(B)[i]] # <<>>
              /\ blocks[children[Listed(B)[i]][1]].type = "paragraph"
              /\ ret.buf = ChildOut(Listed(B)[j])
              /\ ret.buf # <<>>

\* The fragment of an image block, from what its resource lookup answers.
ImageText(b) ==
    IF <<"http", b>> \in fault THEN <<Frag("error", b, 0, "transport error")>>
    ELSE IF <<"decode", b>> \in fault THEN <<Frag("error", b, 0, "decode error")>>
    ELSE <<Frag("image", b, 0, ImageURL(b))>>

\* C10: the walker on an image block returns no error and the image markup
\* with the looked-up URL, or the message of the lookup's error; a parent
\* whose listing holds an image returns no error and the outputs of the
\* siblings before it, the image's fragment, and the outputs of those after.
C10_ImageNeverFails ==
    /\ \A B \in Ids :
        (op = "getBlock" /\ arg.id = B /\ BlockGet(B).err = Nil
         /\ blocks[B].type = "image") =>
            ret.err = Nil /\ ret.buf = ImageText(B)
    /\ \A B \in Ids :
        WalkedParent(B) =>
            \A i \in 1..Len(Listed(B)) :
                LET m == Listed(B)[i] IN
                (BlockGet(m).err = Nil /\ blocks[m].type = "image") =>
                    /\ ret.err = Nil
                    /\ ret.buf = Flatten([j \in 1..(i - 1) |-> ChildOut(Listed(B)[j])])
                                 \o ImageText(m)
                                 \o Flatten([j \in 1..(Len(Listed(B)) - i) |->
                                               ChildOut(Listed(B)[i + j])])

\* A page was walked that lists a paragraph, an image whose lookup failed,
\* and a paragraph: its output is the three fragments.
C10_Witness ==
    \E B \in PageIds :
        /\ WalkedParent(B)
        /\ \E i \in 2..(Len(Listed(B)) - 1) :
              /\ blocks[Listed(B)[i]].type = "image"
              /\ <<"decode", Listed(B)[i]>> \in fault
              /\ blocks[Listed(B)[i - 1]].type = "paragraph"
              /\ blocks[Listed(B)[i + 1]].type = "paragraph"
              /\ ret.buf = <<Frag("paragraph", Listed(B)[i - 1], 0, "")>>
                           \o <<Frag("error", Listed(B)[i], 0, "decode error")>>
                           \o <<Frag("paragraph", Listed(B)[i + 1], 0, "")>>

=============================================================================
